---- MODULE Spec2Model ----
(***************************************************************************)
(* Verification model of the STMP-960 / AAL960 metrology monitor:          *)
(*   - the frame codec  (aal960_protocol.py, 9999.py: read_frame, cs)      *)
(*   - the device session (aal960_device.py: RealDevice960)                *)
(*   - the calibration procedure and the monitoring buffer                 *)
(*     (9999.py: CalibratorGUI)                                            *)
(*   - the application around the device session (aal960_gui.py:           *)
(*     AAL960App)                                                          *)
(* Each part has its own specification over the shared variables; the      *)
(* variables of the other parts stay at their initial values.              *)
(***************************************************************************)
EXTENDS Integers, Sequences, FiniteSets, TLC

VARIABLES
    \* ---- frame codec (one serial port and one reader) ----
    rx,         \* bytes waiting in the port's receive buffer (ser.in_waiting = Len(rx))
    wire,       \* bytes of the stream that have not arrived yet
    fpc,        \* position of the reader inside read_frame
    flen,       \* the length byte of the candidate being read
    fret,       \* what the last finished call of read_frame returned
    returned,   \* the payloads returned so far, in order
    sc,         \* how the stream was built (fixed by Init)
    \* ---- RealDevice960 (one object, its caller and its polling threads) ----
    running,    \* self.running
    ser,        \* self.ser: "None", or a Serial object that is "open" or "closed"
    thread,     \* self.thread: 0 for None, else the worker last started
    cpc,        \* where the caller is inside start() / stop()
    last_call,  \* the last call of start() / stop() that returned, and how
    kick,       \* outcome of the start-frame "kick" of the last start()
    start_entry, \* self.running and the threads started, when the last start() was entered
    wpc,        \* where each polling thread is inside _poll_loop
    wmeas,      \* the measurement a polling thread holds (0: none)
    next_frame, \* the next measurement the instrument sends
    cbLog,      \* every invocation of self.callback so far, in order
    tkq,        \* the root.after(0, ...) hand-overs waiting for the main thread
    handled,    \* the measurements the consumer's handler has run on, in order
    \* ---- CalibratorGUI: live values, calibration, monitoring ----
    now,                \* the wall clock (time.time())
    current_p, current_signal, current_mode, current_sw_state,
    dut_range_low, dut_range_high, dut_points_count, dut_reverse, dut_max_error,
    points_plan,        \* self.points_plan
    calib_points,       \* self.calib_points
    calib_t0,           \* self.calib_t0 (None or the time of the first fixed point)
    dialog,             \* the verdict dialog shown by the last fix_point ("none": no dialog)
    last_op,            \* the last calibration handler that ran, and what it did
    pre_points, pre_t0, pre_plan,   \* the calibration state when the last fix_point was entered
    monitor_enabled, monitor_paused, monitor_t0,
    monitor_times, monitor_pressures, monitor_signals, monitor_pg,
    monitor_min, monitor_max,
    mon_accepted,       \* every sample update_monitor accepted since the last start or reset
    \* ---- CalibratorGUI: the connection and its polling threads ----
    gui_ser,            \* self.ser: "None" or "open"
    gui_running,        \* self.running
    gui_pollers,        \* how many poll_loop threads are alive
    gui_afterq,         \* the root.after(0, ...) callbacks waiting for the main thread
    fault_log,          \* what the handling of the last fatal fault did to the recorded data
    \* ---- AAL960App and the RealDevice960 objects it creates ----
    device,             \* self.device: 0 for None, else the device object held
    app_current,        \* self.current_mode, self.current_p, self.current_signal
    monitor_running,    \* self.monitor_running
    monitor_data,       \* self.monitor_data (the pressures, oldest first)
    app_afterq,         \* the root.after(0, self.on_measurement, meas) calls waiting
    dev_running,        \* self.running of each device object created so far
    dev_worker,         \* where each device's polling thread is
    dev_held,           \* the measurement a polling thread has decoded and not yet handed over
    dev_sent,           \* how many frames the instrument has sent so far
    \* ---- functions run on their own: arguments (fixed by Init) and result ----
    plan_args,          \* the inputs build_target_plan reads
    plan_result,        \* what build_target_plan returned (NotRun before the call)
    payload_arg,        \* the bytes parse_payload is called on
    parse_result        \* what parse_payload returned (not run before the call)

frameVars == <<rx, wire, fpc, flen, fret, returned, sc>>

devVars == <<running, ser, thread, cpc, last_call, kick, start_entry, wpc, wmeas, next_frame, cbLog,
             tkq, handled>>

liveVars == <<current_p, current_signal, current_mode, current_sw_state>>

dutVars == <<dut_range_low, dut_range_high, dut_points_count, dut_reverse, dut_max_error>>

calVars == <<points_plan, calib_points, calib_t0, dialog, last_op, pre_points, pre_t0, pre_plan>>

monVars == <<monitor_enabled, monitor_paused, monitor_t0,
             monitor_times, monitor_pressures, monitor_signals, monitor_pg,
             monitor_min, monitor_max, mon_accepted>>

guiVars == <<now, liveVars, dutVars, calVars, monVars>>

planVars == <<plan_args, plan_result>>

parseVars == <<payload_arg, parse_result>>

pureVars == <<planVars, parseVars>>

sessVars == <<gui_ser, gui_running, gui_pollers, gui_afterq, fault_log>>

appVars == <<device, app_current, monitor_running, monitor_data, app_afterq,
             dev_running, dev_worker, dev_held, dev_sent>>

vars == <<frameVars, devVars, guiVars, pureVars, sessVars, appVars>>

(***************************************************************************)
(* Bytes and the XOR checksum                                              *)
(***************************************************************************)
ADDR == 1

PREAMBLE == <<85, 85>>      \* 0x55 0x55

TRAILER == <<170, 170>>     \* 0xAA 0xAA

MIN_WAITING == 20

RECURSIVE XorBits(_, _, _)
XorBits(a, b, n) ==
    IF n = 0 THEN 0
    ELSE (((a % 2) + (b % 2)) % 2) + 2 * XorBits(a \div 2, b \div 2, n - 1)

ByteXor(a, b) == XorBits(a, b, 8)

RECURSIVE XorFold(_, _)
XorFold(acc, data) ==
    IF data = <<>> THEN acc
    ELSE CHOOSE r \in {XorFold(x, Tail(data)) : x \in {ByteXor(acc, Head(data))}} : TRUE

cs(data) == XorFold(0, data)

Take(s, n) == SubSeq(s, 1, IF n < Len(s) THEN n ELSE Len(s))

Drop(s, n) == SubSeq(s, (IF n < Len(s) THEN n ELSE Len(s)) + 1, Len(s))

\* the value of a finished call of read_frame: None or the payload bytes
Returned(what, data) == [what |-> what, data |-> data]

NoCall == Returned("nocall", <<>>)

(***************************************************************************)
(* Streams the reader is run on                                            *)
(***************************************************************************)
MaxGarbage == 3

MaxLate == 3

Lens == {12, 13, 14}

Addrs == {1, 2}

PayloadBytes == {48, 85, 170}

CorruptVals == {0, 1, 12, 14, 85, 170}

\* 30 15 01 <5.0> 07 <12.0> 08
P1 == <<48, 21, 1, 64, 160, 0, 0, 7, 65, 64, 0, 0, 8>>

PayloadSet(len) == { [i \in 1..len |-> IF i = 1 THEN a ELSE b] : a, b \in PayloadBytes }

Frame(addr, len, payload) ==
    PREAMBLE \o <<addr, len>> \o payload \o <<cs(<<addr, len>> \o payload)>> \o TRAILER

Zeros(n) == [i \in 1..n |-> 0]

Corrupt(f, k, v) == [f EXCEPT ![k] = v]

Scenarios ==
    {[kind |-> "plain", gar |-> g, k |-> 0, v |-> 0, a2 |-> a, l2 |-> l, p2 |-> p, late |-> d] :
        g \in 0..MaxGarbage, a \in Addrs, l \in Lens, p \in UNION {PayloadSet(n) : n \in Lens},
        d \in 0..MaxLate}
    \cup
    {[kind |-> "pair", gar |-> 0, k |-> 0, v |-> 0, a2 |-> ADDR, l2 |-> 13, p2 |-> p, late |-> d] :
        p \in PayloadSet(13), d \in 0..MaxLate}
    \cup
    {[kind |-> "resync", gar |-> 0, k |-> k, v |-> v, a2 |-> ADDR, l2 |-> 13, p2 |-> p, late |-> d] :
        k \in 3..20, v \in CorruptVals, p \in PayloadSet(13), d \in 0..MaxLate}

ValidScenario(s) ==
    /\ Len(s.p2) = s.l2
    /\ s.kind = "resync" => Frame(ADDR, 13, P1)[s.k] # s.v

StreamOf(s) ==
    LET f1 == Frame(ADDR, 13, P1)
        f2 == Frame(s.a2, s.l2, s.p2)
    IN  CASE s.kind = "plain"  -> Zeros(s.gar) \o f2
          [] s.kind = "pair"   -> f1 \o f2
          [] s.kind = "resync" -> Corrupt(f1, s.k, s.v) \o f2

\* the reader before its first call, on one of the streams of S
FrameInitOn(S) ==
    /\ sc \in S
    /\ rx = Take(StreamOf(sc), Len(StreamOf(sc)) - sc.late)
    /\ wire = Drop(StreamOf(sc), Len(StreamOf(sc)) - sc.late)
    /\ fpc = "idle"
    /\ flen = 0
    /\ fret = NoCall
    /\ returned = <<>>

FrameInit == FrameInitOn({s \in Scenarios : ValidScenario(s)})

FrameIdle ==
    /\ sc = [kind |-> "off", gar |-> 0, k |-> 0, v |-> 0, a2 |-> ADDR, l2 |-> 0, p2 |-> <<>>, late |-> 0]
    /\ rx = <<>>
    /\ wire = <<>>
    /\ fpc = "idle"
    /\ flen = 0
    /\ fret = NoCall
    /\ returned = <<>>

(***************************************************************************)
(* read_frame, one statement at a time; bytes may arrive between them      *)
(***************************************************************************)
\* the rest of the stream reaches the receive buffer
Arrive ==
    /\ wire # <<>>
    /\ rx' = rx \o wire
    /\ wire' = <<>>
    /\ UNCHANGED <<fpc, flen, fret, returned, sc>>
    /\ UNCHANGED <<devVars, guiVars, pureVars, appVars, sessVars>>

\* the caller (the polling loop) calls read_frame
ReadFrameCall ==
    /\ fpc = "idle"
    /\ sc.kind # "off"
    /\ fpc' = "loop"
    /\ UNCHANGED <<rx, wire, flen, fret, returned, sc>>
    /\ UNCHANGED <<devVars, guiVars, pureVars, appVars, sessVars>>

\* a loop that starts parsing on any two bytes: sensitivity variant
EnoughWaitingTwo(n) == n >= 2

\* while ser.in_waiting >= 20
EnoughWaiting(n) == n >= MIN_WAITING

\* while ser.in_waiting >= 20  ...  return None
ReadFrameLoop ==
    /\ fpc = "loop"
    /\ IF EnoughWaiting(Len(rx))
       THEN fpc' = "pre" /\ UNCHANGED fret
       ELSE fpc' = "idle" /\ fret' = Returned("None", <<>>)
    /\ UNCHANGED <<rx, wire, flen, returned, sc>>
    /\ UNCHANGED <<devVars, guiVars, pureVars, appVars, sessVars>>

\* a preamble test that consumes nothing: sensitivity variant
PreamblePeek(buf) == 0

\* if ser.read(2) != b"\x55\x55": continue
PreambleRead(buf) == 2

ReadFramePreamble ==
    /\ fpc = "pre"
    /\ rx' = Drop(rx, PreambleRead(rx))
    /\ fpc' = IF Take(rx, PreambleRead(rx)) = PREAMBLE THEN "hdr" ELSE "loop"
    /\ UNCHANGED <<wire, flen, fret, returned, sc>>
    /\ UNCHANGED <<devVars, guiVars, pureVars, appVars, sessVars>>

\* a reader that takes frames of every station: sensitivity variant
AddrIgnored(addr) == TRUE

\* hdr = ser.read(2); short: return None; addr != ADDR: continue
AddrAccepted(addr) == addr = ADDR

ReadFrameHeader ==
    /\ fpc = "hdr"
    /\ rx' = Drop(rx, 2)
    /\ LET hdr == Take(rx, 2) IN
         IF Len(hdr) < 2
         THEN fpc' = "idle" /\ fret' = Returned("None", <<>>) /\ UNCHANGED flen
         ELSE IF ~AddrAccepted(hdr[1])
              THEN fpc' = "loop" /\ UNCHANGED <<fret, flen>>
              ELSE fpc' = "body" /\ flen' = hdr[2] /\ UNCHANGED fret
    /\ UNCHANGED <<wire, returned, sc>>
    /\ UNCHANGED <<devVars, guiVars, pureVars, appVars, sessVars>>

\* a checksum over the payload alone (header bytes left out): sensitivity variant
ChecksumPayloadOnly(length, data, recv_cs) == recv_cs = cs(data)

\* payload = ser.read(length + 3); short: return None; trailer, checksum; return data
ChecksumOk(length, data, recv_cs) == recv_cs = cs(<<ADDR, length>> \o data)

ReadFrameBody ==
    /\ fpc = "body"
    /\ rx' = Drop(rx, flen + 3)
    /\ LET payload == Take(rx, flen + 3) IN
         IF Len(payload) < flen + 3
         THEN fpc' = "idle" /\ fret' = Returned("None", <<>>) /\ UNCHANGED returned
         ELSE LET data == SubSeq(payload, 1, flen)
                  recv_cs == payload[flen + 1]
                  end == SubSeq(payload, flen + 2, flen + 3)
              IN  IF end # TRAILER \/ ~ChecksumOk(flen, data, recv_cs)
                  THEN fpc' = "loop" /\ UNCHANGED <<fret, returned>>
                  ELSE /\ fpc' = "idle"
                       /\ fret' = Returned("data", data)
                       /\ returned' = Append(returned, data)
    /\ UNCHANGED <<wire, flen, sc>>
    /\ UNCHANGED <<devVars, guiVars, pureVars, appVars, sessVars>>

FrameNext ==
    \/ Arrive
    \/ ReadFrameCall
    \/ ReadFrameLoop
    \/ ReadFramePreamble
    \/ ReadFrameHeader
    \/ ReadFrameBody

\* no further call of read_frame can return a frame
Exhausted == fpc = "idle" /\ wire = <<>> /\ Len(rx) < MIN_WAITING

(***************************************************************************)
(* RealDevice960: start(), stop() and _poll_loop, one statement at a time  *)
(***************************************************************************)
MaxStarts == 2

MaxFrames == 2

Workers == 1..MaxStarts

MeasEvent(id) == [kind |-> "meas", id |-> id]

DevInit ==
    /\ running = FALSE
    /\ ser = "None"
    /\ thread = 0
    /\ cpc = "idle"
    /\ last_call = "none"
    /\ kick = "none"
    /\ start_entry = [running |-> FALSE, born |-> {}]
    /\ wpc = [w \in Workers |-> "unborn"]
    /\ wmeas = [w \in Workers |-> 0]
    /\ next_frame = 1
    /\ cbLog = <<>>
    /\ tkq = <<>>
    /\ handled = <<>>

Unborn == {w \in Workers : wpc[w] = "unborn"}

\* the polling threads started so far
Born == Workers \ Unborn

\* start(): tmp = Serial(...); tmp.write(START_FRAME); tmp.close()  (failure: a printed warning)
StartKick ==
    /\ cpc = "idle"
    /\ Unborn # {}
    /\ \E ok \in BOOLEAN : kick' = IF ok THEN "ok" ELSE "warning"
    /\ start_entry' = [running |-> running, born |-> Born]
    /\ cpc' = "start_open"
    /\ UNCHANGED <<running, ser, thread, last_call, wpc, wmeas, next_frame, cbLog, tkq, handled>>
    /\ UNCHANGED <<frameVars, guiVars, pureVars, appVars, sessVars>>

\* a start() that marks the session running before it opens the port: sensitivity variant
RunningMarkedBeforeOpen(r) == TRUE

\* start(): the RuntimeError is raised before self.running = True is reached
RunningOnOpenFailure(r) == r

\* start(): self.ser = Serial(...)   (failure: raise RuntimeError)
StartOpen ==
    /\ cpc = "start_open"
    /\ \/ /\ ser' = "open"
          /\ cpc' = "start_running"
          /\ UNCHANGED <<last_call, running>>
       \/ /\ cpc' = "idle"
          /\ last_call' = "start_raised"
          /\ running' = RunningOnOpenFailure(running)
          /\ UNCHANGED ser
    /\ UNCHANGED <<thread, kick, start_entry, wpc, wmeas, next_frame, cbLog, tkq, handled>>
    /\ UNCHANGED <<frameVars, guiVars, pureVars, appVars, sessVars>>

\* start(): self.running = True
StartRunning ==
    /\ cpc = "start_running"
    /\ running' = TRUE
    /\ cpc' = "start_thread"
    /\ UNCHANGED <<ser, thread, last_call, kick, start_entry, wpc, wmeas, next_frame, cbLog, tkq, handled>>
    /\ UNCHANGED <<frameVars, guiVars, pureVars, appVars, sessVars>>

\* start(): self.thread = Thread(target=self._poll_loop); self.thread.start()
StartThread ==
    /\ cpc = "start_thread"
    /\ LET w == CHOOSE x \in Unborn : \A y \in Unborn : x <= y IN
         /\ thread' = w
         /\ wpc' = [wpc EXCEPT ![w] = "while"]
    /\ cpc' = "idle"
    /\ last_call' = "start"
    /\ UNCHANGED <<running, ser, kick, start_entry, wmeas, next_frame, cbLog, tkq, handled>>
    /\ UNCHANGED <<frameVars, guiVars, pureVars, appVars, sessVars>>

\* stop(): self.running = False
StopRunning ==
    /\ cpc = "idle"
    /\ running' = FALSE
    /\ cpc' = "stop_close"
    /\ UNCHANGED <<ser, thread, last_call, kick, start_entry, wpc, wmeas, next_frame, cbLog, tkq, handled>>
    /\ UNCHANGED <<frameVars, guiVars, pureVars, appVars, sessVars>>

\* stop(): if self.ser: self.ser.close()
StopClose ==
    /\ cpc = "stop_close"
    /\ IF ser = "open"
       THEN ser' = "closed"
       ELSE UNCHANGED ser
    /\ cpc' = "stop_ser"
    /\ UNCHANGED <<running, thread, last_call, kick, start_entry, wpc, wmeas, next_frame, cbLog, tkq, handled>>
    /\ UNCHANGED <<frameVars, guiVars, pureVars, appVars, sessVars>>

\* a stop() that keeps its handle: sensitivity variant
SerKeptAfterStop(s) == s

\* stop(): self.ser = None
SerAfterStop(s) == "None"

StopSer ==
    /\ cpc = "stop_ser"
    /\ ser' = SerAfterStop(ser)
    /\ cpc' = "stop_thread"
    /\ UNCHANGED <<running, thread, last_call, kick, start_entry, wpc, wmeas, next_frame, cbLog, tkq, handled>>
    /\ UNCHANGED <<frameVars, guiVars, pureVars, appVars, sessVars>>

\* stop(): self.thread = None; return  (the polling thread is not joined)
StopThread ==
    /\ cpc = "stop_thread"
    /\ thread' = 0
    /\ cpc' = "idle"
    /\ last_call' = "stop"
    /\ UNCHANGED <<running, ser, kick, start_entry, wpc, wmeas, next_frame, cbLog, tkq, handled>>
    /\ UNCHANGED <<frameVars, guiVars, pureVars, appVars, sessVars>>

\* stop() has returned and start() has not been called since
StopReturned == cpc = "idle" /\ last_call = "stop"

\* _poll_loop: while self.running
PollWhile(w) ==
    /\ wpc[w] = "while"
    /\ wpc' = [wpc EXCEPT ![w] = IF running THEN "if_ser" ELSE "exited"]
    /\ UNCHANGED <<running, ser, thread, cpc, last_call, kick, start_entry, wmeas, next_frame, cbLog, tkq, handled>>
    /\ UNCHANGED <<frameVars, guiVars, pureVars, appVars, sessVars>>

\* _poll_loop: if not self.ser: time.sleep(0.05); continue
PollIfSer(w) ==
    /\ wpc[w] = "if_ser"
    /\ wpc' = [wpc EXCEPT ![w] = IF ser = "None" THEN "while" ELSE "read"]
    /\ UNCHANGED <<running, ser, thread, cpc, last_call, kick, start_entry, wmeas, next_frame, cbLog, tkq, handled>>
    /\ UNCHANGED <<frameVars, guiVars, pureVars, appVars, sessVars>>

\* _poll_loop: payload = read_frame(self.ser); meas = parse_payload(payload)
\*   self.ser is None: AttributeError; a closed port: SerialException or another
\*   exception, by platform; an open port: a measurement, nothing, or an I/O fault
PollRead(w) ==
    /\ wpc[w] = "read"
    /\ \/ /\ ser = "open"
          /\ next_frame <= MaxFrames
          /\ wmeas' = [wmeas EXCEPT ![w] = next_frame]
          /\ next_frame' = next_frame + 1
          /\ wpc' = [wpc EXCEPT ![w] = "callback"]
       \/ /\ ser = "open"
          /\ wpc' = [wpc EXCEPT ![w] = "while"]
          /\ UNCHANGED <<wmeas, next_frame>>
       \/ /\ ser \in {"open", "closed"}
          /\ wpc' = [wpc EXCEPT ![w] = "except_serial"]
          /\ UNCHANGED <<wmeas, next_frame>>
       \/ /\ ser \in {"None", "closed"}
          /\ wpc' = [wpc EXCEPT ![w] = "except_other"]
          /\ UNCHANGED <<wmeas, next_frame>>
    /\ UNCHANGED <<running, ser, thread, cpc, last_call, kick, start_entry, cbLog, tkq, handled>>
    /\ UNCHANGED <<frameVars, guiVars, pureVars, appVars, sessVars>>

\* _poll_loop: if meas and self.callback: self.callback(meas); time.sleep(0.003)
PollCallback(w) ==
    /\ wpc[w] = "callback"
    /\ cbLog' = Append(cbLog, MeasEvent(wmeas[w]))
    /\ tkq' = Append(tkq, MeasEvent(wmeas[w]))
    /\ UNCHANGED handled
    /\ wmeas' = [wmeas EXCEPT ![w] = 0]
    /\ wpc' = [wpc EXCEPT ![w] = "while"]
    /\ UNCHANGED <<running, ser, thread, cpc, last_call, kick, start_entry, next_frame>>
    /\ UNCHANGED <<frameVars, guiVars, pureVars, appVars, sessVars>>

\* _poll_loop: except serial.SerialException: print(...); self.running = False; break
PollExceptSerial(w) ==
    /\ wpc[w] = "except_serial"
    /\ running' = FALSE
    /\ wpc' = [wpc EXCEPT ![w] = "faulted"]
    /\ UNCHANGED <<ser, thread, cpc, last_call, kick, start_entry, wmeas, next_frame, cbLog, tkq, handled>>
    /\ UNCHANGED <<frameVars, guiVars, pureVars, appVars, sessVars>>

\* _poll_loop: except Exception: print(...); time.sleep(0.1)
PollExceptOther(w) ==
    /\ wpc[w] = "except_other"
    /\ wpc' = [wpc EXCEPT ![w] = "while"]
    /\ UNCHANGED <<running, ser, thread, cpc, last_call, kick, start_entry, wmeas, next_frame, cbLog, tkq, handled>>
    /\ UNCHANGED <<frameVars, guiVars, pureVars, appVars, sessVars>>

\* the consumer's main thread, when it is not inside start() / stop(): the Tk
\* event loop runs the oldest pending root.after(0, on_measurement, meas)
MainLoopDispatch ==
    /\ cpc = "idle"
    /\ tkq # <<>>
    /\ handled' = Append(handled, Head(tkq))
    /\ tkq' = Tail(tkq)
    /\ UNCHANGED <<running, ser, thread, cpc, last_call, kick, start_entry, wpc, wmeas,
                   next_frame, cbLog>>
    /\ UNCHANGED <<frameVars, guiVars, pureVars, appVars, sessVars>>

DevNext ==
    \/ StartKick
    \/ StartOpen
    \/ StartRunning
    \/ StartThread
    \/ StopRunning
    \/ StopClose
    \/ StopSer
    \/ StopThread
    \/ \E w \in Workers : PollWhile(w)
    \/ \E w \in Workers : PollIfSer(w)
    \/ \E w \in Workers : PollRead(w)
    \/ \E w \in Workers : PollCallback(w)
    \/ \E w \in Workers : PollExceptSerial(w)
    \/ \E w \in Workers : PollExceptOther(w)
    \/ MainLoopDispatch

(***************************************************************************)
(* Numbers: exact fractions [n, d] in lowest terms with d > 0; an optional *)
(* value is <<>> (None) or <<x>>                                           *)
(***************************************************************************)
RECURSIVE GCD(_, _)
GCD(a, b) == IF b = 0 THEN a ELSE GCD(b, a % b)

Abs(x) == IF x < 0 THEN 0 - x ELSE x

Rat(n, d) ==
    LET sgn == IF d < 0 THEN 0 - 1 ELSE 1
        g == GCD(Abs(n), Abs(d))
    IN  [n |-> (sgn * n) \div g, d |-> (sgn * d) \div g]

RInt(i) == [n |-> i, d |-> 1]

RAdd(a, b) == Rat(a.n * b.d + b.n * a.d, a.d * b.d)

RSub(a, b) == Rat(a.n * b.d - b.n * a.d, a.d * b.d)

RMul(a, b) == Rat(a.n * b.n, a.d * b.d)

RDiv(a, b) == Rat(a.n * b.d, a.d * b.n)

RAbs(a) == [n |-> Abs(a.n), d |-> a.d]

RLe(a, b) == a.n * b.d <= b.n * a.d

RLt(a, b) == a.n * b.d < b.n * a.d

None == <<>>

Some(x) == <<x>>

\* round(x, 6)
Round6(x) == Rat((2 * x.n * 1000000 + x.d) \div (2 * x.d), 1000000)

(***************************************************************************)
(* CalibratorGUI: the inputs the model draws from                          *)
(***************************************************************************)
MaxClock == 1

MonitorCap == 3     \* stands for the 5000 of update_monitor

RangeVals == {0, 10}

PointCounts == {1, 2}

MaxErrors == {RInt(0), Rat(1, 2)}

\* what poll_loop decodes and hands to update_ui: mode, pressure, signal or relay state
Measurements ==
    { [mode |-> "I/P",   p |-> Rat(101, 20), sec |-> RInt(12), relay |-> "None"],
      [mode |-> "I/P",   p |-> Rat(253, 50), sec |-> RInt(12), relay |-> "None"],
      [mode |-> "I/P",   p |-> RInt(10),     sec |-> RInt(20), relay |-> "None"],
      [mode |-> "V/P",   p |-> RInt(5),      sec |-> RInt(5),  relay |-> "None"],
      [mode |-> "Relay", p |-> RInt(5),      sec |-> RInt(0),  relay |-> "True"] }

(***************************************************************************)
(* CalibratorGUI: plan, fixation, undo                                     *)
(***************************************************************************)
Reverse(s) == [i \in 1..Len(s) |-> s[Len(s) + 1 - i]]

Front(s) == SubSeq(s, 1, Len(s) - 1)

build_target_plan(low, high, n, reverse) ==
    IF n < 2 \/ high = low THEN <<>>
    ELSE LET step == RDiv(RSub(high, low), RInt(n - 1))
             forward == [i \in 1..n |-> Round6(RAdd(low, RMul(RInt(i - 1), step)))]
         IN  IF reverse THEN forward \o Reverse(Front(forward)) ELSE forward

\* a plan update that keeps the fixed points: sensitivity variant
PointsKeptOnPlanUpdate(points) == points

\* update_plan: self.calib_points.clear()
PointsAfterPlanUpdate(points) == <<>>

\* a plan update that keeps the time origin of the run: sensitivity variant
UpdatePlanKeepingOrigin(low, high, n, reverse) ==
    /\ points_plan' = build_target_plan(RInt(low), RInt(high), n, reverse)
    /\ calib_points' = <<>>
    /\ UNCHANGED calib_t0

\* update_plan: rebuild the plan from the inputs, drop the points and the time origin
update_plan(low, high, n, reverse) ==
    /\ points_plan' = build_target_plan(RInt(low), RInt(high), n, reverse)
    /\ calib_points' = PointsAfterPlanUpdate(calib_points)
    /\ calib_t0' = None

\* an exhaustion test that is off by one: sensitivity variant
PlanOverfull(points, plan) == Len(points) > Len(plan)

\* fix_point: if len(self.calib_points) >= len(self.points_plan): return
PlanExhausted(points, plan) == Len(points) >= Len(plan)

\* fix_point: span = abs(high - low) or 1.0
Span(low, high) == IF high = low THEN RInt(1) ELSE RInt(Abs(high - low))

\* fix_point: the transfer function of the current mode
PCalc(mode, signal, low, high) ==
    IF mode = "I/P"
    THEN Some(RAdd(RInt(low), RDiv(RMul(RSub(signal, RInt(4)), Span(low, high)), RInt(16))))
    ELSE IF mode = "V/P"
    THEN Some(RAdd(RInt(low), RDiv(RMul(signal, Span(low, high)), RInt(10))))
    ELSE None

\* fix_point: pg = abs(p_calc - self.current_p) / span * 100 if p_calc is not None else None
PercentError(p_calc, p, low, high) ==
    IF p_calc = None THEN None
    ELSE Some(RMul(RDiv(RAbs(RSub(p_calc[1], p)), Span(low, high)), RInt(100)))

\* fix_point: ok = pg is None or pg <= max_err
PointVerdict(pg, max_err) ==
    IF pg = None \/ RLe(pg[1], max_err) THEN "Pass" ELSE "Fail"

\* an overall verdict that one Pass point is enough for: sensitivity variant
AnyPointPasses(points) ==
    IF \E k \in 1..Len(points) : points[k].ok = "Pass" THEN "Pass" ELSE "Fail"

\* fix_point: the verdict of the finished procedure
OverallVerdict(points) ==
    IF \A k \in 1..Len(points) : points[k].ok = "Pass" THEN "Pass" ELSE "Fail"

\* an undo that never clears the time origin: sensitivity variant
TimeOriginKept(points, t0) == t0

\* undo_last_point: if not self.calib_points: self.calib_t0 = None
TimeOriginAfterUndo(points, t0) == IF points = <<>> THEN None ELSE t0

ForgetFix ==
    /\ pre_points' = <<>>
    /\ pre_t0' = None
    /\ pre_plan' = <<>>

Tick ==
    /\ now < MaxClock
    /\ now' = now + 1
    /\ UNCHANGED <<liveVars, dutVars, calVars, monVars>>
    /\ UNCHANGED <<frameVars, devVars, pureVars, appVars, sessVars>>

\* a write to dut_range_low / dut_range_high / dut_points_count / dut_reverse runs update_plan
SetRangeLow ==
    /\ \E v \in RangeVals :
         /\ dut_range_low' = v
         /\ update_plan(v, dut_range_high, dut_points_count, dut_reverse)
    /\ dialog' = "none" /\ last_op' = "plan" /\ ForgetFix
    /\ UNCHANGED <<dut_range_high, dut_points_count, dut_reverse, dut_max_error>>
    /\ UNCHANGED <<now, liveVars, monVars, frameVars, devVars, pureVars, appVars, sessVars>>

SetRangeHigh ==
    /\ \E v \in RangeVals :
         /\ dut_range_high' = v
         /\ update_plan(dut_range_low, v, dut_points_count, dut_reverse)
    /\ dialog' = "none" /\ last_op' = "plan" /\ ForgetFix
    /\ UNCHANGED <<dut_range_low, dut_points_count, dut_reverse, dut_max_error>>
    /\ UNCHANGED <<now, liveVars, monVars, frameVars, devVars, pureVars, appVars, sessVars>>

SetPointsCount ==
    /\ \E n \in PointCounts :
         /\ dut_points_count' = n
         /\ update_plan(dut_range_low, dut_range_high, n, dut_reverse)
    /\ dialog' = "none" /\ last_op' = "plan" /\ ForgetFix
    /\ UNCHANGED <<dut_range_low, dut_range_high, dut_reverse, dut_max_error>>
    /\ UNCHANGED <<now, liveVars, monVars, frameVars, devVars, pureVars, appVars, sessVars>>

SetReverse ==
    /\ \E b \in BOOLEAN :
         /\ dut_reverse' = b
         /\ update_plan(dut_range_low, dut_range_high, dut_points_count, b)
    /\ dialog' = "none" /\ last_op' = "plan" /\ ForgetFix
    /\ UNCHANGED <<dut_range_low, dut_range_high, dut_points_count, dut_max_error>>
    /\ UNCHANGED <<now, liveVars, monVars, frameVars, devVars, pureVars, appVars, sessVars>>

\* the allowed error is read by fix_point only; a write runs no handler
SetMaxError ==
    /\ \E e \in MaxErrors : dut_max_error' = e
    /\ UNCHANGED <<dut_range_low, dut_range_high, dut_points_count, dut_reverse>>
    /\ UNCHANGED <<now, liveVars, calVars, monVars, frameVars, devVars, pureVars, appVars, sessVars>>

\* a time origin that every fixation stamps anew: sensitivity variant
TimeOriginRestamped(t0, clock) == clock

\* fix_point: if self.calib_t0 is None: self.calib_t0 = time.time()
TimeOriginAtFix(t0, clock) == IF t0 = None THEN clock ELSE t0[1]

fix_point ==
    /\ pre_points' = calib_points
    /\ pre_t0' = calib_t0
    /\ pre_plan' = points_plan
    /\ IF PlanExhausted(calib_points, points_plan)
       THEN /\ last_op' = "fix_exhausted"
            /\ dialog' = "none"
            /\ UNCHANGED <<calib_points, calib_t0>>
       ELSE LET idx == Len(calib_points)
                p_set == IF idx < Len(points_plan) THEN points_plan[idx + 1] ELSE current_p
                p_calc == PCalc(current_mode, current_signal, dut_range_low, dut_range_high)
                pg == PercentError(p_calc, current_p, dut_range_low, dut_range_high)
                ok == PointVerdict(pg, dut_max_error)
                t0 == TimeOriginAtFix(calib_t0, now)
                point == [idx |-> idx + 1, time |-> now, p_set |-> p_set,
                          p_et |-> current_p, signal |-> current_signal,
                          p_calc |-> p_calc, pg |-> pg, ok |-> ok, t |-> now - t0]
            IN  /\ calib_t0' = Some(t0)
                /\ calib_points' = Append(calib_points, point)
                /\ last_op' = "fix"
                /\ dialog' = IF Len(calib_points) + 1 = Len(points_plan)
                             THEN OverallVerdict(Append(calib_points, point))
                             ELSE "none"
    /\ UNCHANGED <<points_plan, now, liveVars, dutVars, monVars, frameVars, devVars, pureVars, appVars, sessVars>>

undo_last_point ==
    /\ IF calib_points = <<>>
       THEN UNCHANGED <<calib_points, calib_t0>>
       ELSE /\ calib_points' = Front(calib_points)
            /\ calib_t0' = TimeOriginAfterUndo(Front(calib_points), calib_t0)
    /\ last_op' = CASE last_op = "fix" -> "fix_undo"
                    [] last_op = "fix_exhausted" -> "exhausted_undo"
                    [] OTHER -> "undo"
    /\ IF last_op \in {"fix", "fix_exhausted"}
       THEN UNCHANGED <<pre_points, pre_t0, pre_plan>>
       ELSE ForgetFix
    /\ dialog' = "none"
    /\ UNCHANGED <<points_plan, now, liveVars, dutVars, monVars, frameVars, devVars, pureVars, appVars, sessVars>>

\* clear_points: askyesno; on yes clear the points and the origin and run update_plan
\* clear_points: askyesno, then clear the points, the time origin and rebuild the plan
ClearPointsEffect ==
    /\ \E yes \in BOOLEAN :
         IF yes
         THEN update_plan(dut_range_low, dut_range_high, dut_points_count, dut_reverse)
         ELSE UNCHANGED <<points_plan, calib_points, calib_t0>>
    /\ dialog' = "none" /\ last_op' = "clear" /\ ForgetFix

clear_points ==
    /\ ClearPointsEffect
    /\ UNCHANGED <<now, liveVars, dutVars, monVars, frameVars, devVars, pureVars, appVars, sessVars>>

(***************************************************************************)
(* CalibratorGUI: live values and the monitoring buffer                    *)
(***************************************************************************)
\* an eviction that drops the newest samples instead: sensitivity variant
KeepFirst(lst) ==
    IF Len(lst) > MonitorCap THEN SubSeq(lst, 1, MonitorCap) ELSE lst

\* update_monitor: lst = lst[-5000:] when longer than 5000
KeepLast(lst) ==
    IF Len(lst) > MonitorCap THEN SubSeq(lst, Len(lst) - MonitorCap + 1, Len(lst)) ELSE lst

\* a buffer that takes samples while it is paused: sensitivity variant
AcceptingWhilePaused(enabled, paused) == enabled

\* update_monitor: if not self.monitor_enabled or self.monitor_paused: return
Accepting(enabled, paused) == enabled /\ ~paused

\* a running maximum that is never set: sensitivity variant
RunningMaxUnset(max, p) == max

\* a minimum that follows the latest sample: sensitivity variant
RunningMinLatest(min, p) == Some(p)

\* update_monitor: if self.monitor_min is None or p < self.monitor_min: self.monitor_min = p
RunningMin(min, p) == IF min = None \/ RLt(p, min[1]) THEN Some(p) ELSE min

\* update_monitor: if self.monitor_max is None or p > self.monitor_max: self.monitor_max = p
RunningMax(max, p) == IF max = None \/ RLt(max[1], p) THEN Some(p) ELSE max

update_monitor(p, signal) ==
    IF ~Accepting(monitor_enabled, monitor_paused)
    THEN UNCHANGED monVars
    ELSE LET t0 == IF monitor_t0 = None THEN now ELSE monitor_t0[1]
             t == now - t0
         IN  /\ monitor_t0' = Some(t0)
             /\ monitor_times' = KeepLast(Append(monitor_times, t))
             /\ monitor_pressures' = KeepLast(Append(monitor_pressures, p))
             /\ monitor_signals' = KeepLast(Append(monitor_signals, signal))
             /\ monitor_pg' = KeepLast(Append(monitor_pg, RInt(0)))
             /\ monitor_min' = RunningMin(monitor_min, p)
             /\ monitor_max' = RunningMax(monitor_max, p)
             /\ mon_accepted' = Append(mon_accepted, [t |-> t, p |-> p, signal |-> signal])
             /\ UNCHANGED <<monitor_enabled, monitor_paused>>

\* update_ui(mode, p, p_unit, sec, sec_unit)
UpdateUiEffect(m) ==
    /\ current_p' = m.p
    /\ current_signal' = IF m.relay \in {"True", "False"} THEN RInt(0) ELSE m.sec
    /\ current_mode' = m.mode
    /\ current_sw_state' = m.relay
    /\ update_monitor(m.p, IF m.relay \in {"True", "False"} THEN RInt(0) ELSE m.sec)

\* the measurements update_ui is run on: the full-scale reading is drawn while
\* the monitoring buffer is off (recorded, it would only be one more pressure)
Readings == IF monitor_enabled THEN {m \in Measurements : m.sec # RInt(20)} ELSE Measurements

\* update_ui, run on the main thread for each decoded measurement
update_ui ==
    \E m \in Readings :
        /\ (monitor_enabled /\ ~monitor_paused) => Len(mon_accepted) <= MonitorCap
        /\ UpdateUiEffect(m)
        /\ UNCHANGED <<now, dutVars, calVars, frameVars, devVars, pureVars, appVars, sessVars>>

\* a list that keeps its samples: sensitivity variant
NotCleared(lst) == lst

\* self.monitor_times.clear() (and the three other sample lists)
Cleared(lst) == <<>>

start_monitoring ==
    /\ monitor_enabled' = TRUE
    /\ monitor_paused' = FALSE
    /\ monitor_t0' = Some(now)
    /\ monitor_times' = Cleared(monitor_times)
    /\ monitor_pressures' = Cleared(monitor_pressures)
    /\ monitor_signals' = Cleared(monitor_signals)
    /\ monitor_pg' = Cleared(monitor_pg)
    /\ monitor_min' = None
    /\ monitor_max' = None
    /\ mon_accepted' = <<>>
    /\ UNCHANGED <<now, liveVars, dutVars, calVars, frameVars, devVars, pureVars, appVars, sessVars>>

toggle_monitor_pause ==
    /\ monitor_paused' = ~monitor_paused
    /\ UNCHANGED <<monitor_enabled, monitor_t0, monitor_times, monitor_pressures,
                   monitor_signals, monitor_pg, monitor_min, monitor_max, mon_accepted>>
    /\ UNCHANGED <<now, liveVars, dutVars, calVars, frameVars, devVars, pureVars, appVars, sessVars>>

\* a reset that only switches monitoring off: sensitivity variant
ResetKeepingSamples ==
    /\ monitor_enabled' = FALSE
    /\ monitor_paused' = FALSE
    /\ UNCHANGED <<monitor_t0, monitor_times, monitor_pressures, monitor_signals,
                   monitor_pg, monitor_min, monitor_max, mon_accepted>>

ResetMonitoringEffect ==
    /\ monitor_enabled' = FALSE
    /\ monitor_paused' = FALSE
    /\ monitor_t0' = None
    /\ monitor_times' = Cleared(monitor_times)
    /\ monitor_pressures' = Cleared(monitor_pressures)
    /\ monitor_signals' = Cleared(monitor_signals)
    /\ monitor_pg' = Cleared(monitor_pg)
    /\ monitor_min' = None
    /\ monitor_max' = None
    /\ mon_accepted' = <<>>

reset_monitoring ==
    /\ ResetMonitoringEffect
    /\ UNCHANGED <<now, liveVars, dutVars, calVars, frameVars, devVars, pureVars, appVars, sessVars>>

GuiInit ==
    /\ now = 0
    /\ current_p = RInt(0)
    /\ current_signal = RInt(0)
    /\ current_mode = "-"
    /\ current_sw_state = "None"
    /\ dut_range_low = 0
    /\ dut_range_high = 10
    /\ dut_points_count \in PointCounts
    /\ dut_reverse = TRUE
    /\ dut_max_error = Rat(1, 2)
    /\ points_plan = build_target_plan(RInt(dut_range_low), RInt(dut_range_high),
                                        dut_points_count, dut_reverse)
    /\ calib_points = <<>>
    /\ calib_t0 = None
    /\ dialog = "none"
    /\ last_op = "plan"
    /\ pre_points = <<>>
    /\ pre_t0 = None
    /\ pre_plan = <<>>
    /\ monitor_enabled = FALSE
    /\ monitor_paused = FALSE
    /\ monitor_t0 = None
    /\ monitor_times = <<>>
    /\ monitor_pressures = <<>>
    /\ monitor_signals = <<>>
    /\ monitor_pg = <<>>
    /\ monitor_min = None
    /\ monitor_max = None
    /\ mon_accepted = <<>>

CalNext ==
    \/ Tick
    \/ update_ui
    \/ SetRangeLow
    \/ SetRangeHigh
    \/ SetPointsCount
    \/ SetReverse
    \/ SetMaxError
    \/ fix_point
    \/ undo_last_point
    \/ clear_points

MonNext ==
    \/ Tick
    \/ update_ui
    \/ start_monitoring
    \/ toggle_monitor_pause
    \/ reset_monitoring

(***************************************************************************)
(* CalibratorGUI: connect, disconnect and poll_loop                        *)
(***************************************************************************)
MaxPollers == 1

MaxPending == 2

\* the data a fault must not touch
RecordedData == [points |-> calib_points, times |-> monitor_times,
                 pressures |-> monitor_pressures, signals |-> monitor_signals]

RecordedDataAfter == [points |-> calib_points', times |-> monitor_times',
                      pressures |-> monitor_pressures', signals |-> monitor_signals']

\* what the last fatal fault did: kind of fault, whether fixed points and
\* monitoring samples existed when it was handled, and whether they were kept
FaultRecord(kind) ==
    [kind |-> kind,
     had_points |-> RecordedData.points # <<>>,
     had_samples |-> RecordedData.times # <<>>,
     kept |-> RecordedDataAfter = RecordedData]

NoFault == [kind |-> "none", had_points |-> FALSE, had_samples |-> FALSE, kept |-> TRUE]

SessInit ==
    /\ gui_ser = "None"
    /\ gui_running = FALSE
    /\ gui_pollers = 0
    /\ gui_afterq = <<>>
    /\ fault_log = NoFault

\* an entry of the Tk callback queue
AfterCall(fn, arg) == [fn |-> fn, arg |-> arg]

NoArg == [mode |-> "-", p |-> RInt(0), sec |-> RInt(0), relay |-> "None"]

\* connect: if self.ser: return; the kick; self.ser = Serial(...) or showerror and
\* return; self.running = True; the polling thread is started
gui_connect ==
    /\ gui_pollers < MaxPollers
    /\ UNCHANGED <<gui_afterq, guiVars, frameVars, devVars, pureVars, appVars>>
    /\ IF gui_ser # "None"
       THEN UNCHANGED <<gui_ser, gui_running, gui_pollers, fault_log>>
       ELSE \/ /\ gui_ser' = "open"
               /\ gui_running' = TRUE
               /\ gui_pollers' = gui_pollers + 1
               /\ UNCHANGED fault_log
            \/ /\ fault_log' = FaultRecord("open_failed")
               /\ UNCHANGED <<gui_ser, gui_running, gui_pollers>>

\* a disconnect that leaves the monitoring buffer as it is: sensitivity variant
DisconnectKeepingMonitor ==
    /\ gui_running' = FALSE
    /\ gui_ser' = "None"
    /\ ClearPointsEffect
    /\ UNCHANGED <<monVars, now, liveVars, dutVars, gui_pollers, frameVars, devVars, pureVars, appVars>>

\* disconnect: self.running = False; close and drop self.ser; the buttons;
\* self.reset_monitoring(); self.clear_points()
DisconnectEffect ==
    /\ gui_running' = FALSE
    /\ gui_ser' = "None"
    /\ ResetMonitoringEffect
    /\ ClearPointsEffect
    /\ UNCHANGED <<now, liveVars, dutVars, gui_pollers, frameVars, devVars, pureVars, appVars>>

\* the Disconnect button
gui_disconnect ==
    /\ DisconnectEffect
    /\ UNCHANGED <<gui_afterq, fault_log>>

\* the measurements the instrument sends during a session
PolledMeasurements == {m \in Measurements : m.mode = "Relay" \/ m.p = Rat(101, 20)}

\* a polling thread that calls update_ui itself: sensitivity variant
CallDirectly(m) ==
    /\ UpdateUiEffect(m)
    /\ UNCHANGED <<now, dutVars, calVars, gui_afterq>>

\* poll_loop: self.root.after(0, self.update_ui, mode, p, p_unit, sec, sec_unit)
HandOver(m) ==
    /\ gui_afterq' = Append(gui_afterq, AfterCall("update_ui", m))
    /\ UNCHANGED guiVars

\* poll_loop: a frame is read and decoded: self.root.after(0, self.update_ui, ...)
poll_loop_frame ==
    /\ gui_pollers > 0
    /\ gui_running
    /\ gui_ser = "open"
    /\ Len(gui_afterq) < MaxPending
    /\ Len(mon_accepted) + Len(gui_afterq) <= MonitorCap
    /\ \E m \in PolledMeasurements : HandOver(m)
    /\ UNCHANGED <<gui_ser, gui_running, gui_pollers, fault_log>>
    /\ UNCHANGED <<frameVars, devVars, pureVars, appVars>>

\* poll_loop: except serial.SerialException: root.after(0, showerror);
\* root.after(0, self.disconnect); break
poll_loop_fault ==
    /\ gui_pollers > 0
    /\ gui_running
    /\ gui_ser = "open"
    /\ Len(gui_afterq) < MaxPending
    /\ gui_afterq' = gui_afterq \o <<AfterCall("showerror", NoArg), AfterCall("disconnect", NoArg)>>
    /\ gui_pollers' = gui_pollers - 1
    /\ UNCHANGED <<gui_ser, gui_running, fault_log>>
    /\ UNCHANGED <<guiVars, frameVars, devVars, pureVars, appVars>>

\* poll_loop: while self.running is found false
poll_loop_exit ==
    /\ gui_pollers > 0
    /\ ~gui_running
    /\ gui_pollers' = gui_pollers - 1
    /\ UNCHANGED <<gui_ser, gui_running, gui_afterq, fault_log>>
    /\ UNCHANGED <<guiVars, frameVars, devVars, pureVars, appVars>>

\* the Tk main loop runs the oldest waiting callback
gui_mainloop ==
    /\ gui_afterq # <<>>
    /\ gui_afterq' = Tail(gui_afterq)
    /\ LET call == Head(gui_afterq) IN
         CASE call.fn = "update_ui" ->
                /\ UpdateUiEffect(call.arg)
                /\ UNCHANGED <<now, dutVars, calVars, frameVars, devVars, pureVars, appVars>>
                /\ UNCHANGED <<gui_ser, gui_running, gui_pollers, fault_log>>
           [] call.fn = "showerror" ->
                UNCHANGED <<guiVars, frameVars, devVars, pureVars, appVars,
                            gui_ser, gui_running, gui_pollers, fault_log>>
           [] call.fn = "disconnect" ->
                /\ DisconnectEffect
                /\ fault_log' = FaultRecord("io_error")

\* the Start button of the monitoring tab is enabled between connect and disconnect
MonStartButton ==
    /\ gui_ser # "None"
    /\ start_monitoring

SessNext ==
    \/ gui_connect
    \/ gui_disconnect
    \/ poll_loop_frame
    \/ poll_loop_fault
    \/ poll_loop_exit
    \/ gui_mainloop
    \/ MonStartButton
    \/ fix_point

(***************************************************************************)
(* AAL960App: connect, disconnect, on_measurement and the monitor buttons, *)
(* with the polling thread of every RealDevice960 it creates               *)
(***************************************************************************)
MaxDevices == 2

MaxAppFrames == 5

Devices == 1..MaxDevices

\* what parse_payload hands to the callback: mode, pressure, signal, relay state
AppMeasurements ==
    { [mode |-> "I/P",   pressure |-> Rat(101, 20), signal |-> RInt(12), relay_state |-> "None"],
      [mode |-> "Relay", pressure |-> RInt(5),      signal |-> RInt(0),  relay_state |-> "True"] }

NoMeasurement == [mode |-> "-", pressure |-> RInt(0), signal |-> RInt(0), relay_state |-> "None"]

\* the values __init__ and disconnect give the current mode, pressure and signal
ResetDefaults == [mode |-> "-", p |-> RInt(0), signal |-> RInt(0)]

AppInit ==
    /\ device = 0
    /\ app_current = ResetDefaults
    /\ monitor_running = FALSE
    /\ monitor_data = <<>>
    /\ app_afterq = <<>>
    /\ dev_running = [d \in Devices |-> FALSE]
    /\ dev_worker = [d \in Devices |-> "unborn"]
    /\ dev_held = [d \in Devices |-> NoMeasurement]
    /\ dev_sent = 0

pollVars == <<dev_running, dev_worker, dev_held, dev_sent>>

otherVars == <<frameVars, devVars, guiVars, pureVars, sessVars>>

\* the Connect button (enabled while no device is held), real device: if
\* self.device is not None: return; dev = RealDevice960(...); dev.start(), which
\* raises when the port cannot be opened (showerror, return: nothing changes,
\* a stuttering step); self.device = dev
connect ==
    /\ device = 0
    /\ \E d \in Devices :
          /\ dev_worker[d] = "unborn"
          /\ \A e \in Devices : e < d => dev_worker[e] # "unborn"
          /\ dev_running' = [dev_running EXCEPT ![d] = TRUE]
          /\ dev_worker' = [dev_worker EXCEPT ![d] = "polling"]
          /\ device' = d
          /\ UNCHANGED <<dev_held, dev_sent>>
    /\ UNCHANGED <<app_current, monitor_running, monitor_data, app_afterq, otherVars>>

\* the Disconnect button (enabled while a device is held): self.device.stop();
\* self.device = None; the current values are reset; stop_monitor(); clear_monitor()
disconnect ==
    /\ device # 0
    /\ dev_running' = [dev_running EXCEPT ![device] = FALSE]
    /\ device' = 0
    /\ app_current' = ResetDefaults
    /\ monitor_running' = FALSE
    /\ monitor_data' = <<>>
    /\ UNCHANGED <<app_afterq, dev_worker, dev_held, dev_sent, otherVars>>

\* on_measurement's signal: 1.0 or 0.0 for a relay state, else float(meas.signal)
ShownSignal(meas) ==
    CASE meas.relay_state = "True" -> RInt(1)
      [] meas.relay_state = "False" -> RInt(0)
      [] OTHER -> meas.signal

\* on_measurement: the current values are set; if self.monitor_running:
\* self.monitor_data.append((t_rel, meas.pressure))
on_measurement(meas) ==
    /\ app_current' = [mode |-> meas.mode, p |-> meas.pressure, signal |-> ShownSignal(meas)]
    /\ monitor_data' = IF monitor_running THEN Append(monitor_data, meas.pressure)
                       ELSE monitor_data
    /\ UNCHANGED <<device, monitor_running>>

\* the Tk main loop runs the oldest waiting root.after(0, self.on_measurement, meas)
app_mainloop ==
    /\ app_afterq # <<>>
    /\ app_afterq' = Tail(app_afterq)
    /\ on_measurement(Head(app_afterq))
    /\ UNCHANGED <<pollVars, otherVars>>

\* start_monitor (its button is enabled while monitoring is stopped): if not
\* self.device: showwarning, return; self.monitor_running = True
start_monitor ==
    /\ ~monitor_running
    /\ monitor_running' = (device # 0)
    /\ UNCHANGED <<device, app_current, monitor_data, app_afterq, pollVars, otherVars>>

\* stop_monitor (its button is enabled while monitoring runs)
stop_monitor ==
    /\ monitor_running
    /\ monitor_running' = FALSE
    /\ UNCHANGED <<device, app_current, monitor_data, app_afterq, pollVars, otherVars>>

\* clear_monitor: self.monitor_data.clear()
clear_monitor ==
    /\ monitor_data # <<>>
    /\ monitor_data' = <<>>
    /\ UNCHANGED <<device, app_current, monitor_running, app_afterq, pollVars, otherVars>>

\* _poll_loop of device d: while self.running; read_frame and parse_payload give
\* a measurement
AppPollRead(d) ==
    /\ dev_worker[d] = "polling"
    /\ dev_running[d]
    /\ dev_sent < MaxAppFrames
    /\ \E meas \in AppMeasurements : dev_held' = [dev_held EXCEPT ![d] = meas]
    /\ dev_worker' = [dev_worker EXCEPT ![d] = "callback"]
    /\ dev_sent' = dev_sent + 1
    /\ UNCHANGED <<dev_running, device, app_current, monitor_running, monitor_data,
                   app_afterq, otherVars>>

\* _poll_loop: self.callback(meas), which is _device_callback:
\* self.root.after(0, self.on_measurement, meas)
AppPollCallback(d) ==
    /\ dev_worker[d] = "callback"
    /\ Len(app_afterq) < MaxPending
    /\ app_afterq' = Append(app_afterq, dev_held[d])
    /\ dev_held' = [dev_held EXCEPT ![d] = NoMeasurement]
    /\ dev_worker' = [dev_worker EXCEPT ![d] = "polling"]
    /\ UNCHANGED <<dev_running, dev_sent, device, app_current, monitor_running,
                   monitor_data, otherVars>>

\* _poll_loop: except serial.SerialException: print; self.running = False; break
AppPollFault(d) ==
    /\ dev_worker[d] = "polling"
    /\ dev_running[d]
    /\ dev_running' = [dev_running EXCEPT ![d] = FALSE]
    /\ dev_worker' = [dev_worker EXCEPT ![d] = "faulted"]
    /\ UNCHANGED <<dev_held, dev_sent, device, app_current, monitor_running,
                   monitor_data, app_afterq, otherVars>>

\* _poll_loop: while self.running is found false after stop()
AppPollExit(d) ==
    /\ dev_worker[d] = "polling"
    /\ ~dev_running[d]
    /\ dev_worker' = [dev_worker EXCEPT ![d] = "exited"]
    /\ UNCHANGED <<dev_running, dev_held, dev_sent, device, app_current, monitor_running,
                   monitor_data, app_afterq, otherVars>>

AppNext ==
    \/ connect
    \/ disconnect
    \/ app_mainloop
    \/ start_monitor
    \/ stop_monitor
    \/ clear_monitor
    \/ \E d \in Devices : AppPollRead(d)
    \/ \E d \in Devices : AppPollCallback(d)
    \/ \E d \in Devices : AppPollFault(d)
    \/ \E d \in Devices : AppPollExit(d)

(***************************************************************************)
(* build_target_plan run on its own                                        *)
(***************************************************************************)
MaxPointsCount == 5

\* the ranges typed into the low / high fields
PlanRanges == {<<RInt(0), RInt(10)>>, <<RInt(10), RInt(0)>>, <<RInt(0 - 5), RInt(5)>>,
               <<RInt(0), RInt(0)>>, <<RInt(10), RInt(10)>>, <<RInt(0), Rat(7, 10000000)>>}

\* parsed: float() and int() accept the three texts
PlanArgs == [parsed : BOOLEAN, range : PlanRanges, n : 0..MaxPointsCount, reverse : BOOLEAN]

PlanNotRun == [done |-> FALSE, plan |-> <<>>]

PlanIdle ==
    /\ plan_args = [parsed |-> TRUE, range |-> <<RInt(0), RInt(10)>>, n |-> 0, reverse |-> FALSE]
    /\ plan_result = PlanNotRun

PlanInit ==
    /\ plan_args \in PlanArgs
    /\ plan_result = PlanNotRun

\* build_target_plan with its try / except: anything that does not parse gives []
BuildPlanCall ==
    /\ ~plan_result.done
    /\ plan_result' =
         [done |-> TRUE,
          plan |-> IF plan_args.parsed
                   THEN build_target_plan(plan_args.range[1], plan_args.range[2],
                                          plan_args.n, plan_args.reverse)
                   ELSE <<>>]
    /\ UNCHANGED <<plan_args, parseVars, frameVars, devVars, guiVars, sessVars, appVars>>

PlanNext == BuildPlanCall

(***************************************************************************)
(* parse_payload run on its own                                            *)
(***************************************************************************)
\* UNITS_P: pressure units by unit byte
UNITS_P == [b \in {0, 1, 2, 3, 4, 5, 6, 7, 10, 11, 12} |->
              CASE b = 0 -> "mm H2O" [] b = 1 -> "mm Hg" [] b = 2 -> "mbar" [] b = 3 -> "bar"
                [] b = 4 -> "psi" [] b = 5 -> "Pa" [] b = 6 -> "MPa" [] b = 7 -> "kPa"
                [] b = 10 -> "inHg" [] b = 11 -> "inH2O" [] b = 12 -> "kg/cm2"]

\* UNITS_E: signal units by unit byte
UNITS_E == [b \in {8, 9} |-> IF b = 8 THEN "mA" ELSE "V"]

HexDigit(n) == <<"0", "1", "2", "3", "4", "5", "6", "7", "8", "9",
                 "A", "B", "C", "D", "E", "F">>[n + 1]

\* f"{b:02X}"
Hex02(b) == HexDigit(b \div 16) \o HexDigit(b % 16)

\* a lookup with a fixed fallback text: sensitivity variant
UnitNameOrBlank(table, b) == IF b \in DOMAIN table THEN table[b] ELSE "?"

\* table.get(b, f"0x{b:02X}")
UnitName(table, b) == IF b \in DOMAIN table THEN table[b] ELSE "0x" \o Hex02(b)

RECURSIVE Pow2(_)
Pow2(k) == IF k = 0 THEN 1 ELSE 2 * Pow2(k - 1)

\* struct.unpack(">f", b)[0]: the value of four big-endian IEEE-754 bytes, for
\* zero and for the normal numbers with biased exponent 120..157 (the others
\* are kept as their bits)
BEFloat(b) ==
    LET sign == b[1] \div 128
        e == (b[1] % 128) * 2 + b[2] \div 128
        mant == (b[2] % 128) * 65536 + b[3] * 256 + b[4]
        m24 == 8388608 + mant
        mag == IF e >= 150 THEN Rat(m24 * Pow2(e - 150), 1) ELSE Rat(m24, Pow2(150 - e))
    IN  IF e = 0 /\ mant = 0 THEN RInt(0)
        ELSE IF e >= 120 /\ e <= 157
             THEN (IF sign = 1 THEN RSub(RInt(0), mag) ELSE mag)
             ELSE [bits |-> b]

HEADER_IP == <<48, 21, 1>>

HEADER_VP == <<48, 22, 1>>

HEADER_RELAY == <<48, 23, 1>>

\* the two analogue modes taken for each other: sensitivity variant
ModeSwapped(header) == IF header = HEADER_IP THEN "V/P" ELSE "I/P"

\* parse_payload: mode = "I/P" if header == b"\x30\x15\x01" else "V/P"
ModeOf(header) == IF header = HEADER_IP THEN "I/P" ELSE "V/P"

\* Measurement(...): signal is tagged with its Python type
Measurement(mode, p, p_unit, sec, sec_unit, relay_state, raw) ==
    [mode |-> mode, pressure |-> p, pressure_unit |-> p_unit, signal |-> sec,
     signal_unit |-> sec_unit, relay_state |-> relay_state, raw |-> raw]

\* parse_payload: None, or Some(measurement)
parse_payload(data) ==
    IF Len(data) # 13 THEN None
    ELSE LET header == SubSeq(data, 1, 3)
             p == BEFloat(SubSeq(data, 4, 7))
             p_unit == UnitName(UNITS_P, data[8])
         IN  IF header \in {HEADER_IP, HEADER_VP}
             THEN Some(Measurement(ModeOf(header),
                                   p, p_unit,
                                   [type |-> "float", value |-> BEFloat(SubSeq(data, 9, 12))],
                                   UnitName(UNITS_E, data[13]), "None", data))
             ELSE IF header = HEADER_RELAY
             THEN LET code == data[13] IN
                  IF code = 3
                  THEN Some(Measurement("Relay", p, p_unit, [type |-> "bool", value |-> TRUE],
                                        "closed", "True", data))
                  ELSE IF code = 4
                  THEN Some(Measurement("Relay", p, p_unit, [type |-> "bool", value |-> FALSE],
                                        "open", "False", data))
                  ELSE Some(Measurement("Relay", p, p_unit, [type |-> "int", value |-> code],
                                        "relay 0x" \o Hex02(code), "None", data))
             ELSE None

\* the payloads parse_payload is run on
Float5 == <<64, 160, 0, 0>>

Float12 == <<65, 64, 0, 0>>

FloatMinus2_5 == <<192, 32, 0, 0>>

FloatZero == <<0, 0, 0, 0>>

Payloads13 ==
    { <<h1, h2, h3>> \o pf \o <<pu>> \o sf \o <<last>> :
        h1 \in {48, 49}, h2 \in {21, 22, 23, 24}, h3 \in {1, 0},
        pf \in {Float5, FloatMinus2_5, FloatZero}, pu \in {7, 8, 255},
        sf \in {Float12, Float5}, last \in {3, 4, 7, 8, 9} }

ShortPayloads == {<<>>, HEADER_IP, HEADER_RELAY \o Float5 \o <<7>> \o Float12}

LongPayloads == {HEADER_IP \o Float5 \o <<7>> \o Float12 \o <<8, 0>>,
                 HEADER_RELAY \o Float5 \o <<7>> \o Float12 \o <<3, 3>>}

ParseArgs == Payloads13 \cup ShortPayloads \cup LongPayloads

ParseNotRun == [done |-> FALSE, meas |-> None]

ParseIdle ==
    /\ payload_arg = <<>>
    /\ parse_result = ParseNotRun

ParseInit ==
    /\ payload_arg \in ParseArgs
    /\ parse_result = ParseNotRun

ParsePayloadCall ==
    /\ ~parse_result.done
    /\ parse_result' = [done |-> TRUE, meas |-> parse_payload(payload_arg)]
    /\ UNCHANGED <<payload_arg, planVars, frameVars, devVars, guiVars, sessVars, appVars>>

ParseNext == ParsePayloadCall

(***************************************************************************)
(* Specifications                                                          *)
(***************************************************************************)
InitFrame == FrameInit /\ DevInit /\ GuiInit /\ PlanIdle /\ ParseIdle /\ SessInit /\ AppInit

\* the streams whose second frame carries the payload 30 30 ... 30
InitFrameLive ==
    /\ FrameInitOn({s \in Scenarios : ValidScenario(s) /\ s.p2 = [i \in 1..s.l2 |-> 48]})
    /\ DevInit /\ GuiInit /\ PlanIdle /\ ParseIdle /\ SessInit /\ AppInit

InitDev == FrameIdle /\ DevInit /\ GuiInit /\ PlanIdle /\ ParseIdle /\ SessInit /\ AppInit

InitGui == FrameIdle /\ DevInit /\ GuiInit /\ PlanIdle /\ ParseIdle /\ SessInit /\ AppInit

InitPlan == FrameIdle /\ DevInit /\ GuiInit /\ PlanInit /\ ParseIdle /\ SessInit /\ AppInit

InitParse == FrameIdle /\ DevInit /\ GuiInit /\ PlanIdle /\ ParseInit /\ SessInit /\ AppInit

SpecFrame == InitFrame /\ [][FrameNext]_vars

\* read_frame runs in a thread that is scheduled again and again: a call that
\* has been entered takes its next step
SpecFrameLive ==
    InitFrameLive /\ [][FrameNext]_vars
    /\ WF_vars(ReadFrameLoop \/ ReadFramePreamble \/ ReadFrameHeader \/ ReadFrameBody)

SpecDev == InitDev /\ [][DevNext]_vars

\* every polling thread is scheduled again and again, and a call of start()
\* or stop() that was entered runs to its end
SpecDevLive ==
    InitDev /\ [][DevNext]_vars
    /\ \A w \in Workers :
          WF_vars(PollWhile(w) \/ PollIfSer(w) \/ PollRead(w) \/ PollCallback(w)
                  \/ PollExceptSerial(w) \/ PollExceptOther(w))
    /\ WF_vars(StartOpen \/ StartRunning \/ StartThread \/ StopClose \/ StopSer \/ StopThread)

SpecCal == InitGui /\ [][CalNext]_vars

SpecMon == InitGui /\ [][MonNext]_vars

SpecPlan == InitPlan /\ [][PlanNext]_vars

SpecParse == InitParse /\ [][ParseNext]_vars

SpecSess == InitGui /\ [][SessNext]_vars

SpecApp == InitGui /\ [][AppNext]_vars

(***************************************************************************)
(* The frame codec's claims (checked under SpecFrame)                      *)
(***************************************************************************)
\* C1 (as claimed): in a stream made of a frame F1 with one byte after the
\* preamble altered, followed by an intact frame F2 (address 0x01, 13 bytes of
\* payload, everything available from the start), read_frame never returns
\* anything but F2's payload, and once nothing more can be read it has
\* returned exactly F2's payload.
C1_ResyncRecoversNextFrame ==
    (sc.kind = "resync" /\ sc.late = 0) =>
        /\ \A i \in 1..Len(returned) : returned[i] = sc.p2
        /\ Exhausted => returned = <<sc.p2>>

\* C2 (as claimed): for any address, any length and any payload, the frame
\* built with the right checksum, presented alone and in full, makes the first
\* call of read_frame return exactly that payload.
C2_RoundTripAnyFrame ==
    (sc.kind = "plain" /\ sc.gar = 0 /\ sc.late = 0 /\ fret # NoCall) =>
        returned = <<sc.p2>>

\* C2 (amended): the same for a frame with the station address 0x01 and a
\* length of at least 13 (a frame of at least 20 bytes).
C2_RoundTripStationFrame ==
    (/\ sc.kind = "plain" /\ sc.gar = 0 /\ sc.late = 0
     /\ sc.a2 = ADDR /\ sc.l2 >= MIN_WAITING - 7
     /\ fret # NoCall) =>
        returned = <<sc.p2>>

C2_Witness ==
    /\ sc.kind = "plain" /\ sc.gar = 0 /\ sc.late = 0
    /\ sc.a2 = ADDR /\ sc.l2 = 14 /\ sc.p2[1] = 85 /\ sc.p2[2] = 170
    /\ fpc = "idle" /\ fret = Returned("data", sc.p2) /\ returned = <<sc.p2>> /\ rx = <<>>

\* C22: a valid station frame (address 0x01, at least 13 bytes of payload,
\* available in full) is found and returned whatever number of non-frame
\* bytes, odd or even, precedes it: once nothing more can be read, its payload
\* is what read_frame has returned.
C22_FrameFoundAfterAnyGarbage ==
    (sc.kind = "plain" /\ sc.a2 = ADDR /\ sc.l2 >= MIN_WAITING - 7 /\ sc.late = 0
     /\ Exhausted) =>
        returned = <<sc.p2>>

\* C23: a candidate whose length byte reads one too many (0x0E instead of
\* 0x0D) takes LEN+3 bytes that end with the first byte of the valid frame F2
\* behind it, and is rejected for its trailer; F2 begins inside the bytes read
\* for the candidate and is still returned.
C23_FrameInsideRejectedCandidate ==
    (sc.kind = "resync" /\ sc.k = 4 /\ sc.v = 14 /\ sc.late = 0 /\ Exhausted) =>
        returned = <<sc.p2>>

\* C24: a valid station frame standing at the head of the stream, whose last
\* bytes arrive later, is not lost: once all of it has arrived and nothing more
\* can be read, its payload is what read_frame has returned.
C24_LateBytesFrameNotLost ==
    (sc.kind = "plain" /\ sc.gar = 0 /\ sc.a2 = ADDR /\ sc.l2 >= MIN_WAITING - 7
     /\ Exhausted) =>
        returned = <<sc.p2>>

\* the stream holds, from position j on, 55 55, the address 0x01, the length
\* of data, data, the XOR of 0x01, the length and data, and AA AA
StationFrameAt(stream, j, data) ==
    LET L == Len(data) IN
    /\ j + L + 6 <= Len(stream)
    /\ stream[j] = 85 /\ stream[j + 1] = 85
    /\ stream[j + 2] = 1
    /\ stream[j + 3] = L
    /\ SubSeq(stream, j + 4, j + 3 + L) = data
    /\ stream[j + 4 + L] = cs(<<1, L>> \o data)
    /\ stream[j + 5 + L] = 170 /\ stream[j + 6 + L] = 170

\* C25: every payload read_frame has returned stands in the stream inside a
\* well-formed station frame (55 55, 0x01, LEN, LEN bytes, their XOR, AA AA);
\* a candidate with another address, a wrong checksum or a wrong trailer is
\* never returned, and a call ends only by returning None or a payload.
C25_ReturnedIsValidFrame ==
    /\ returned # <<>> =>
          \A stream \in {StreamOf(sc)} :
             \A i \in 1..Len(returned) :
                \E j \in 1..Len(stream) : StationFrameAt(stream, j, returned[i])
    /\ fret.what \in {"nocall", "None", "data"}
    /\ fret.what = "data" => returned # <<>> /\ fret.data = returned[Len(returned)]

\* a candidate with a wrong checksum byte was passed over and the valid frame
\* behind it returned
C25_Witness ==
    /\ sc.kind = "resync" /\ sc.k = 18
    /\ fpc = "idle"
    /\ returned = <<sc.p2>>
    /\ fret = Returned("data", sc.p2)

\* C26: read_frame terminates on every content of the receive buffer: every
\* pass through the loop takes two bytes out of the buffer (the preamble
\* test) before it continues or returns, no step of a call puts bytes back,
\* and a call that has been entered always comes to its return.
C26_ReadFrameTerminates ==
    /\ [][fpc = "pre" => (fpc' = "pre" \/ Len(rx') = Len(rx) - 2)]_vars
    /\ [][(fpc # "idle" /\ fpc' # fpc) => Len(rx') <= Len(rx)]_vars
    /\ (fpc # "idle") ~> (fpc = "idle")

\* a call went through garbage and a frame of another station and returned
\* None with the buffer used up
C26_Witness ==
    /\ sc.kind = "plain" /\ sc.gar = 2 /\ sc.a2 # ADDR /\ sc.late = 0
    /\ fpc = "idle"
    /\ fret = Returned("None", <<>>)
    /\ Len(rx) < Len(StreamOf(sc)) - 4

\* C27: when read_frame tests the buffer and fewer than 20 bytes are
\* waiting, the call ends there: it returns None, returns no payload and
\* takes no byte out of the buffer.
C27_ShortBufferUntouched ==
    [][(fpc = "loop" /\ Len(rx) < 20 /\ fpc' # fpc) =>
          /\ fpc' = "idle"
          /\ fret' = Returned("None", <<>>)
          /\ rx' = rx
          /\ returned' = returned]_vars

\* a call found 19 bytes of a frame waiting and returned None; the 19 bytes
\* are all still in the buffer and the last one has not arrived yet
C27_Witness ==
    /\ sc.kind = "plain" /\ sc.gar = 0 /\ sc.l2 = 13 /\ sc.late = 1
    /\ fpc = "idle"
    /\ fret = Returned("None", <<>>)
    /\ wire # <<>>
    /\ rx = Take(StreamOf(sc), 19)

(***************************************************************************)
(* The device session's claims (checked under SpecDev)                     *)
(***************************************************************************)
\* C3 (as claimed): once stop() has returned (and start() has not been called
\* again), no polling thread invokes the callback.
C3_NoCallbackAfterStop == [][StopReturned => cbLog' = cbLog]_vars

FaultReports == {i \in 1..Len(cbLog) : cbLog[i].kind = "fault"}

\* C4 (as claimed): when a polling thread has left its loop on a
\* SerialException, the session is marked stopped and the failure has been
\* reported exactly once through the callback.
C4_FaultReportedOnce ==
    \A w \in Workers : wpc[w] = "faulted" => Cardinality(FaultReports) = 1

\* the failing start() has returned and nothing has been called since
StartRaised == cpc = "idle" /\ last_call = "start_raised"

InSecondStop == last_call = "stop" /\ cpc \in {"stop_close", "stop_ser", "stop_thread"}

\* C13: after every stop(), also one on a session never started, the session
\* is not running and holds no connection handle, and a stop() that directly
\* follows a stop() changes neither self.running, self.ser nor self.thread.
C13_StopIdempotent ==
    /\ [](StopReturned => (~running /\ ser = "None" /\ thread = 0))
    /\ [][(InSecondStop \/ InSecondStop') =>
             <<running, ser, thread>>' = <<running, ser, thread>>]_vars

C13_Witness ==
    /\ InSecondStop
    /\ cpc = "stop_thread"
    /\ Born = {}

\* C14: the consumer's handler runs on the measurements in the order in which
\* their frames were validated (frames are numbered as they are validated):
\* none is handled before an earlier one, and none twice.
C14_HandledInValidationOrder ==
    \A i, j \in 1..Len(handled) : i < j => handled[i].id < handled[j].id

\* the polling threads that have been started and have not left _poll_loop
LiveWorkers == {w \in Workers : wpc[w] \notin {"unborn", "exited", "faulted"}}

\* C28: across any sequence of start() and stop() calls, at most one polling
\* thread of the session is inside _poll_loop at any time.
C28_AtMostOneWorker == Cardinality(LiveWorkers) <= 1

\* C29: once stop() has been called (it has cleared self.running), every
\* polling thread that was inside _poll_loop at that moment, whatever it was
\* doing, eventually leaves the loop and terminates.
C29_WorkerExitsAfterStop ==
    \A w \in Workers :
        (cpc = "stop_close" /\ w \in LiveWorkers) ~> (wpc[w] \in {"exited", "faulted"})

(***************************************************************************)
(* build_target_plan's claims (checked under SpecPlan)                     *)
(***************************************************************************)
\* the i-th evenly spaced setpoint, low + (i - 1) * (high - low) / (n - 1)
EvenlySpaced(low, high, n, i) ==
    RAdd(low, RMul(RInt(i - 1), RDiv(RSub(high, low), RInt(n - 1))))

\* a setpoint in millionths (setpoints are kept to six decimals)
Micro(x) == x.n * (1000000 \div x.d)

\* p is within half a millionth of the exact value e
NearestMicro(p, e) == 2 * Abs(Micro(p) * e.d - e.n * 1000000) <= e.d

\* C11: build_target_plan returns the empty plan when n < 2 or high = low;
\* otherwise its first n setpoints run from low to high, evenly spaced (to the
\* sixth decimal the results are kept at) and strictly monotonic, followed
\* when reverse is set by that leg reversed without its last setpoint.
C11_PlanShape ==
    (plan_result.done /\ plan_args.parsed) =>
        LET low == plan_args.range[1]
            high == plan_args.range[2]
            n == plan_args.n
            plan == plan_result.plan
        IN  IF n < 2 \/ high = low
            THEN plan = <<>>
            ELSE /\ Len(plan) = IF plan_args.reverse THEN 2 * n - 1 ELSE n
                 /\ \A i \in 1..n : NearestMicro(plan[i], EvenlySpaced(low, high, n, i))
                 /\ \A i \in 1..(n - 1) :
                      IF RLt(low, high) THEN Micro(plan[i]) < Micro(plan[i + 1])
                                        ELSE Micro(plan[i + 1]) < Micro(plan[i])
                 /\ plan_args.reverse => \A j \in 1..(n - 1) : plan[n + j] = plan[n - j]

(***************************************************************************)
(* parse_payload's claims (checked under SpecParse)                        *)
(***************************************************************************)
KnownHeader(data) ==
    Len(data) >= 3 /\ SubSeq(data, 1, 3) \in {<<48, 21, 1>>, <<48, 22, 1>>, <<48, 23, 1>>}

\* C15: parse_payload returns a measurement exactly for the 13-byte payloads
\* that start with 30 15 01, 30 16 01 or 30 17 01, whatever their unit bytes
\* and relay code are, and no measurement for every other payload; a unit
\* byte outside the table gives the fallback unit text made of the raw byte.
C15_ParseTotal ==
    parse_result.done =>
        /\ (parse_result.meas # None) <=> (Len(payload_arg) = 13 /\ KnownHeader(payload_arg))
        /\ parse_result.meas # None =>
             LET m == parse_result.meas[1] IN
                 /\ payload_arg[8] = 7 => m.pressure_unit = "kPa"
                 /\ payload_arg[8] = 8 => m.pressure_unit = "0x08"
                 /\ payload_arg[8] = 255 => m.pressure_unit = "0xFF"
                 /\ (m.mode # "Relay" /\ payload_arg[13] = 7) => m.signal_unit = "0x07"
                 /\ m.raw = payload_arg

C15_Witness ==
    /\ parse_result.done
    /\ parse_result.meas # None
    /\ SubSeq(payload_arg, 1, 3) = <<48, 22, 1>>
    /\ payload_arg[8] = 255
    /\ payload_arg[13] = 3
    /\ parse_result.meas[1].pressure_unit = "0xFF"
    /\ parse_result.meas[1].signal_unit = "0x03"

\* C16: of a 13-byte payload, header 30 15 01 decodes to mode I/P and
\* 30 16 01 to V/P, both without relay state; 30 17 01 decodes to mode Relay
\* with relay state true for last byte 03, false for 04, and absent with the
\* raw code kept as the signal for any other byte; only Relay measurements
\* carry a relay state.
C16_ModeAndRelayState ==
    (parse_result.done /\ parse_result.meas # None) =>
        LET m == parse_result.meas[1]
            header == SubSeq(payload_arg, 1, 3)
            code == payload_arg[13]
        IN  /\ header = <<48, 21, 1>> => (m.mode = "I/P" /\ m.relay_state = "None")
            /\ header = <<48, 22, 1>> => (m.mode = "V/P" /\ m.relay_state = "None")
            /\ header = <<48, 23, 1>> =>
                 /\ m.mode = "Relay"
                 /\ code = 3 => (m.relay_state = "True" /\ m.signal_unit = "closed")
                 /\ code = 4 => (m.relay_state = "False" /\ m.signal_unit = "open")
                 /\ code \notin {3, 4} =>
                      /\ m.relay_state = "None"
                      /\ m.signal.type = "int"
                      /\ m.signal.value = code
            /\ m.relay_state # "None" => m.mode = "Relay"

C16_Witness ==
    /\ parse_result.done
    /\ parse_result.meas # None
    /\ SubSeq(payload_arg, 1, 3) = <<48, 23, 1>>
    /\ payload_arg[13] = 7
    /\ parse_result.meas[1].relay_state = "None"
    /\ parse_result.meas[1].signal.value = 7
    /\ parse_result.meas[1].pressure = Rat(0 - 5, 2)

\* the samples and the running extremes of the monitoring buffer
MonitorData == <<monitor_times, monitor_pressures, monitor_signals, monitor_pg,
                 monitor_min, monitor_max>>

(***************************************************************************)
(* CalibratorGUI's connection claims (checked under SpecSess)              *)
(***************************************************************************)
\* C17: when a fatal fault (the port cannot be opened, or an I/O error during
\* polling) has been handled, the fixed calibration points and the recorded
\* monitoring samples are what they were just before it was handled.
C17_FaultKeepsData ==
    fault_log.kind # "none" => fault_log.kept

\* C30: the polling thread never changes the consumer's state itself. A step
\* of the polling thread (it puts callbacks on the main thread's queue, or it
\* ends) leaves the current values, the calibration points and the monitoring
\* buffer alone; the current values change only in a step of the main loop
\* that takes the oldest waiting update_ui off the queue, one at a time, and
\* they become the values of that measurement.
C30_WorkerOnlyHandsOver ==
    /\ [][(Len(gui_afterq') > Len(gui_afterq) \/ gui_pollers' < gui_pollers)
            => UNCHANGED <<liveVars, calVars, monVars>>]_vars
    /\ [][liveVars' # liveVars =>
            /\ gui_afterq # <<>>
            /\ gui_afterq' = Tail(gui_afterq)
            /\ Head(gui_afterq).fn = "update_ui"
            /\ current_p' = Head(gui_afterq).arg.p
            /\ current_mode' = Head(gui_afterq).arg.mode
            /\ current_sw_state' = Head(gui_afterq).arg.relay]_vars

\* one measurement has been delivered and applied; a different one, handed
\* over later, is still waiting on the queue
C30_Witness ==
    /\ gui_pollers > 0
    /\ current_mode # "-"
    /\ gui_afterq # <<>>
    /\ Head(gui_afterq).fn = "update_ui"
    /\ Head(gui_afterq).arg.mode # current_mode

\* C35: every disconnect, asked for by the user or run after a fault, leaves
\* the monitoring buffer empty and monitoring inactive, and this stays so
\* while the session is disconnected: a connect starts with no sample
\* recorded before the disconnect.
C35_DisconnectResetsMonitoring ==
    /\ [][gui_ser' = "None" =>
            /\ MonitorData' = <<<<>>, <<>>, <<>>, <<>>, None, None>>
            /\ ~monitor_enabled' /\ ~monitor_paused']_vars
    /\ [](gui_ser = "None" => (mon_accepted = <<>> /\ monitor_t0 = None))

\* a fault was handled while the buffer held samples: the session is
\* disconnected, the buffer is empty and monitoring is inactive
C35_Witness ==
    /\ fault_log.kind = "io_error"
    /\ fault_log.had_samples
    /\ gui_ser = "None"
    /\ ~gui_running
    /\ monitor_times = <<>>
    /\ ~monitor_enabled

\* C37: a calibration point is fixed only while the session is connected: no
\* step taken while self.ser is None appends a point to calib_points.
C37_NoPointWhileDisconnected ==
    [][gui_ser = "None" => Len(calib_points') <= Len(calib_points)]_vars

(***************************************************************************)
(* The monitoring buffer's claims (checked under SpecMon)                  *)
(***************************************************************************)
MostRecent(s, n) == [i \in 1..(IF Len(s) < n THEN Len(s) ELSE n) |->
                        s[i + (IF Len(s) < n THEN 0 ELSE Len(s) - n)]]

\* C5: the buffer never holds more than the cap, and its four lists hold
\* exactly the most recently accepted samples (at most the cap), in the order
\* they were accepted: a sample accepted on a full buffer evicts the oldest.
C5_BoundedFifo ==
    LET kept == MostRecent(mon_accepted, MonitorCap) IN
        /\ Len(monitor_times) <= MonitorCap
        /\ monitor_times = [i \in 1..Len(kept) |-> kept[i].t]
        /\ monitor_pressures = [i \in 1..Len(kept) |-> kept[i].p]
        /\ monitor_signals = [i \in 1..Len(kept) |-> kept[i].signal]
        /\ Len(monitor_pg) = Len(kept)

C5_Witness ==
    /\ Len(mon_accepted) = MonitorCap + 1
    /\ Len(monitor_times) = MonitorCap
    /\ mon_accepted[1].p # mon_accepted[2].p
    /\ mon_accepted[1].t # mon_accepted[MonitorCap + 1].t
    /\ monitor_pressures[1] = mon_accepted[2].p

\* C18: while monitoring is not active or is paused, a step that leaves both
\* flags alone (so every arriving measurement) changes neither the samples nor
\* the running min and max; and toggle_monitor_pause flips the paused flag and
\* changes nothing else of the buffer.
C18_InactiveOrPausedKeepsData ==
    /\ [][((~monitor_enabled \/ monitor_paused)
             /\ monitor_enabled' = monitor_enabled /\ monitor_paused' = monitor_paused)
           => MonitorData' = MonitorData]_vars
    /\ [][toggle_monitor_pause =>
             /\ monitor_paused' = ~monitor_paused
             /\ MonitorData' = MonitorData
             /\ UNCHANGED <<monitor_enabled, monitor_t0>>]_vars

C18_Witness ==
    /\ monitor_enabled
    /\ monitor_paused
    /\ Len(monitor_pressures) = 2
    /\ current_p # monitor_pressures[2]
    /\ current_p # monitor_pressures[1]

\* C20: min and max are both absent exactly when no sample has been accepted
\* since the last start or reset; otherwise both are present with min <= max
\* (a non-negative span), and the four sample lists all hold the retained
\* samples, as many as were accepted up to the cap.
C20_StatsPresence ==
    /\ (mon_accepted = <<>>) <=> (monitor_min = None)
    /\ (monitor_min = None) <=> (monitor_max = None)
    /\ monitor_min # None => RLe(monitor_min[1], monitor_max[1])
    /\ Len(monitor_times) = IF Len(mon_accepted) < MonitorCap
                            THEN Len(mon_accepted) ELSE MonitorCap
    /\ Len(monitor_pressures) = Len(monitor_times)
    /\ Len(monitor_signals) = Len(monitor_times)
    /\ Len(monitor_pg) = Len(monitor_times)

C20_Witness ==
    /\ Len(mon_accepted) = 2
    /\ monitor_min # None
    /\ monitor_max # None
    /\ RLt(monitor_min[1], monitor_max[1])
    /\ monitor_min = Some(mon_accepted[2].p)

\* C21: from any prior state, start_monitoring leaves the four sample lists
\* empty, min and max absent, monitoring active and not paused; from any prior
\* state, reset_monitoring leaves the lists empty, min and max absent and
\* monitoring inactive.
C21_StartAndResetPostconditions ==
    /\ [][start_monitoring =>
             /\ MonitorData' = <<<<>>, <<>>, <<>>, <<>>, None, None>>
             /\ monitor_enabled' /\ ~monitor_paused']_vars
    /\ [][reset_monitoring =>
             /\ MonitorData' = <<<<>>, <<>>, <<>>, <<>>, None, None>>
             /\ ~monitor_enabled']_vars

\* start_monitoring has run after measurements arrived and time passed: the
\* buffer is empty and active, and its time origin is later than 0
C21_Witness ==
    /\ monitor_enabled /\ ~monitor_paused
    /\ MonitorData = <<<<>>, <<>>, <<>>, <<>>, None, None>>
    /\ monitor_t0 # None /\ monitor_t0[1] > 0
    /\ current_mode # "-"

\* C31: the running min and max are the extremes over all samples accepted
\* since the last start, evicted ones included: each is the pressure of an
\* accepted sample, every accepted sample lies between them, and so does
\* every retained sample.
C31_ExtremesOverAccepted ==
    mon_accepted # <<>> =>
        /\ monitor_min # None /\ monitor_max # None
        /\ \E i \in 1..Len(mon_accepted) : mon_accepted[i].p = monitor_min[1]
        /\ \E i \in 1..Len(mon_accepted) : mon_accepted[i].p = monitor_max[1]
        /\ \A i \in 1..Len(mon_accepted) :
              RLe(monitor_min[1], mon_accepted[i].p) /\ RLe(mon_accepted[i].p, monitor_max[1])
        /\ \A k \in 1..Len(monitor_pressures) :
              RLe(monitor_min[1], monitor_pressures[k]) /\ RLe(monitor_pressures[k], monitor_max[1])

\* the sample that set the minimum has been evicted: no retained sample has
\* the minimum's pressure, and the minimum is still that of the evicted one
C31_Witness ==
    /\ Len(mon_accepted) > MonitorCap
    /\ Len(monitor_pressures) = MonitorCap
    /\ monitor_min = Some(mon_accepted[1].p)
    /\ \A k \in 1..Len(monitor_pressures) : RLt(monitor_min[1], monitor_pressures[k])

\* C40: in every reachable state, when monitoring is inactive the four sample
\* lists are empty and min and max are absent; and the four lists (times,
\* pressures, signals, pg) always have the same length.
C40_InactiveMeansEmpty ==
    /\ ~monitor_enabled => MonitorData = <<<<>>, <<>>, <<>>, <<>>, None, None>>
    /\ Len(monitor_pressures) = Len(monitor_times)
    /\ Len(monitor_signals) = Len(monitor_times)
    /\ Len(monitor_pg) = Len(monitor_times)

\* monitoring is inactive, the pause flag has been toggled and a measurement
\* has arrived after time passed: the buffer is still empty
C40_Witness ==
    /\ ~monitor_enabled
    /\ monitor_paused
    /\ current_mode = "V/P"
    /\ now > 0
    /\ monitor_times = <<>>
    /\ monitor_min = None

(***************************************************************************)
(* The calibration procedure's claims (checked under SpecCal)              *)
(***************************************************************************)
\* C6: there are never more fixed points than plan slots, and the k-th fixed
\* point has index k and the k-th setpoint of the current plan as p_set.
C6_PointsFollowPlan ==
    /\ Len(calib_points) <= Len(points_plan)
    /\ \A k \in 1..Len(calib_points) :
         /\ calib_points[k].idx = k
         /\ calib_points[k].p_set = points_plan[k]

C6_Witness ==
    /\ Len(points_plan) = 3
    /\ Len(calib_points) = 3
    /\ points_plan[1] # points_plan[2]
    /\ calib_points[3].p_set = points_plan[1]
    /\ last_op = "fix"

\* C7: a fix_point entered with as many fixed points as plan slots (an empty
\* plan included) takes the exhausted exit and changes neither the fixed
\* points, nor the time origin, nor the plan, and shows no verdict.
C7_ExhaustedFixIsNoOp ==
    (last_op \in {"fix", "fix_exhausted"} /\ Len(pre_points) >= Len(pre_plan)) =>
        /\ last_op = "fix_exhausted"
        /\ calib_points = pre_points
        /\ calib_t0 = pre_t0
        /\ points_plan = pre_plan
        /\ dialog = "none"

C7_Witness ==
    /\ last_op = "fix_exhausted"
    /\ Len(points_plan) = 3
    /\ Len(calib_points) = 3
    /\ calib_t0 # None

\* C8 (as claimed): fix_point immediately followed by undo_last_point leaves
\* the fixed points and the time origin as they were when fix_point was entered.
C8_FixThenUndoRestores ==
    last_op \in {"fix_undo", "exhausted_undo"} =>
        /\ calib_points = pre_points
        /\ calib_t0 = pre_t0

\* C8 (amended): a fix_point that fixes a point (one entered with a free plan
\* slot), immediately followed by undo_last_point, leaves the fixed points
\* and the time origin as they were when fix_point was entered.
C8_EffectiveFixThenUndoRestores ==
    last_op = "fix_undo" =>
        /\ calib_points = pre_points
        /\ calib_t0 = pre_t0

C8_Witness ==
    /\ last_op = "fix_undo"
    /\ calib_points = <<>>
    /\ calib_t0 = None
    /\ now > 0

\* C9 (as claimed): whenever fix_point fixes a point, its verdict is Pass
\* exactly when its percent error is absent or at most the allowed error, and
\* its percent error is absent exactly when the current mode is Relay.
C9_VerdictAndRelay ==
    [][Len(calib_points') = Len(calib_points) + 1 =>
         LET pt == calib_points'[Len(calib_points')] IN
             /\ pt.ok = "Pass" <=> (pt.pg = None \/ RLe(pt.pg[1], dut_max_error))
             /\ pt.pg = None <=> current_mode = "Relay"]_vars

\* C10: the fix_point that fills the last plan slot, and no other, shows an
\* overall verdict, and that verdict is Pass exactly when every fixed point
\* is Pass.
C10_OverallVerdict ==
    /\ last_op = "fix" => (dialog # "none" <=> Len(calib_points) = Len(points_plan))
    /\ last_op # "fix" => dialog = "none"
    /\ dialog # "none" =>
         (dialog = "Pass" <=> \A k \in 1..Len(calib_points) : calib_points[k].ok = "Pass")

C10_Witness ==
    /\ dialog = "Fail"
    /\ Len(calib_points) = 3
    /\ calib_points[1].ok = "Pass"
    /\ calib_points[2].ok = "Fail"
    /\ calib_points[3].ok = "Pass"

\* C19: while no measurement mode is active (the current mode is the
\* placeholder), fix_point fixes no calibration point: no step adds one.
C19_NoModeNoPoint ==
    [][current_mode = "-" => Len(calib_points') <= Len(calib_points)]_vars

\* the four inputs a plan is built from
PlanInputs == <<dut_range_low, dut_range_high, dut_points_count, dut_reverse>>

\* C32: every step that changes the range, the point count or the reverse
\* flag, that changes the plan, or in which clear_points changes the protocol,
\* leaves no fixed point and no time origin, and the plan it leaves is the one
\* built from the inputs as they are after the step.
C32_PlanChangeClearsPoints ==
    [][(\/ PlanInputs' # PlanInputs
        \/ points_plan' # points_plan
        \/ (last_op' = "clear" /\ <<calib_points, calib_t0>>' # <<calib_points, calib_t0>>)) =>
          /\ calib_points' = <<>>
          /\ calib_t0' = None
          /\ points_plan' = build_target_plan(RInt(dut_range_low'), RInt(dut_range_high'),
                                               dut_points_count', dut_reverse')]_vars

\* the range has been turned round after time has passed: the plan is the
\* descending one and the protocol is empty with no time origin
C32_Witness ==
    /\ dut_range_low = 10 /\ dut_range_high = 0 /\ dut_points_count = 2 /\ ~dut_reverse
    /\ points_plan = <<RInt(10), RInt(0)>>
    /\ calib_points = <<>>
    /\ calib_t0 = None
    /\ last_op = "plan"
    /\ now > 0
    /\ current_mode # "-"

\* C33: for every range with high # low, a point fixed in I/P mode at a
\* signal of 4 has p_calc = low and at a signal of 20 has p_calc = high; in V/P
\* mode a signal of 0 gives low and a signal of 10 gives high.
C33_TransferEndpoints ==
    [][(/\ Len(calib_points') = Len(calib_points) + 1
        /\ dut_range_high # dut_range_low
        /\ \/ current_mode = "I/P" /\ current_signal \in {RInt(4), RInt(20)}
           \/ current_mode = "V/P" /\ current_signal \in {RInt(0), RInt(10)}) =>
          calib_points'[Len(calib_points')].p_calc =
              Some(RInt(IF current_signal \in {RInt(4), RInt(0)}
                        THEN dut_range_low ELSE dut_range_high))]_vars

\* C34: the time origin is absent exactly when no point is fixed; the step
\* that fixes the first point sets it to the time of that step, and every step
\* that starts with an origin and ends with at least one point (a later
\* fix_point, an undo that leaves a point) leaves it unchanged.
C34_TimeOriginOfRun ==
    /\ [](calib_t0 = None <=> calib_points = <<>>)
    /\ [][(calib_points = <<>> /\ calib_points' # <<>>) => calib_t0' = Some(now)]_vars
    /\ [][(calib_t0 # None /\ calib_points' # <<>>) => calib_t0' = calib_t0]_vars

\* two points were fixed, time has passed and the second was undone: the
\* origin is still the time of the first
C34_Witness ==
    /\ last_op = "fix_undo"
    /\ Len(calib_points) = 1
    /\ Len(pre_points) = 1
    /\ now > 0
    /\ calib_t0 = Some(0)
    /\ calib_points[1].time = 0

(***************************************************************************)
(* AAL960App's claims (checked under SpecApp)                              *)
(***************************************************************************)
\* C36: in AAL960App monitor_data never holds more than the cap of samples
\* (5000 in the text, MonitorCap here): once the cap is reached, a further
\* measurement received while monitoring runs evicts the oldest sample.
C36_MonitorDataCapped == Len(monitor_data) <= MonitorCap

\* C38: while AAL960App holds no device (before the first connect and from
\* the return of disconnect() to the next connect()) the current mode,
\* pressure and signal are at their reset defaults and monitor_data has no
\* sample, whatever is still waiting in the main-thread queue.
C38_QuietAfterDisconnect ==
    device = 0 => (app_current = ResetDefaults /\ monitor_data = <<>>)

\* C39: whenever AAL960App holds a device, that device's polling thread is
\* running; after the thread has stopped on an I/O fault the application
\* does not hold the device any more.
C39_HeldDeviceIsPolling ==
    device # 0 => dev_worker[device] \in {"polling", "callback"}

====
